---------------------------- MODULE Spec2Model ----------------------------
(***************************************************************************)
(* Model of skills/cli-patterns/scripts/spinner.py: the Spinner and        *)
(* StyledSpinner classes, the foreground flows that call start() and       *)
(* stop(), and the background threads that run Spinner._spin.              *)
(*                                                                         *)
(* Strings are sequences of characters.  A character is a one-element      *)
(* token; the non-ASCII glyphs are named by their code point ("U+280B"),   *)
(* each being one character for Python's len().                            *)
(*                                                                         *)
(* A foreground flow is at "idle" between calls, at "L<n>" when it is      *)
(* about to execute line n of spinner.py, and at "ret" when its call has   *)
(* just returned (or raised).  A thread is at "check" (line 54), "write"   *)
(* (lines 55-56) or "sleep" (lines 57-58).                                 *)
(***************************************************************************)
EXTENDS Integers, Sequences, FiniteSets, TLC

(* ------------------------------ bounds --------------------------------- *)

\* Threads one indicator may create (start() calls on a terminal).
MaxThreads == 2

\* Frames one thread renders before it only waits for the stop signal.
MaxFrames == 5

\* Calls to start() and stop() the foreground flows issue in total.
MaxCalls == 3

\* Longest message the indicator is constructed with.
MaxLabelLen == 1

\* Threads and calls of the runs that follow one start()/stop() pair.
PairThreads == 1

PairCalls == 2

\* Frames per thread in the runs that do not look at the frames' text.
FewFrames == 2

\* Calls of the runs that start the indicator again after a stop().
RestartCalls == 4

\* Frames per thread in the runs about termination.
LiveFrames == 1

(* ----------------------------- characters ------------------------------ *)

CR == "\r"

NL == "\n"

SP == " "

Dots == <<".", ".", ".">>

Spaces(n) == [j \in 1..n |-> SP]

LabelChars == {"a"}

Labels == UNION {[1..n -> LabelChars] : n \in 0..MaxLabelLen}

(* ---------------------------- style table ------------------------------ *)

\* Spinner.__init__, line 32
DefaultCycle ==
  << <<"U+280B">>, <<"U+2819">>, <<"U+2839">>, <<"U+2838">>, <<"U+283C">>,
     <<"U+2834">>, <<"U+2826">>, <<"U+2827">>, <<"U+2807">>, <<"U+280F">> >>

SPINNER_STYLES ==
  [ braille |-> << <<"U+280B">>, <<"U+2819">>, <<"U+2839">>, <<"U+2838">>,
                   <<"U+283C">>, <<"U+2834">>, <<"U+2826">>, <<"U+2827">>,
                   <<"U+2807">>, <<"U+280F">> >>,
    classic |-> << <<"|">>, <<"/">>, <<"-">>, <<"\\">> >>,
    dots    |-> << <<".", " ", " ">>, <<".", ".", " ">>, <<".", ".", ".">>,
                   <<" ", ".", ".">>, <<" ", " ", ".">>, <<" ", " ", " ">> >>,
    arrows  |-> << <<"U+2190">>, <<"U+2196">>, <<"U+2191">>, <<"U+2197">>,
                   <<"U+2192">>, <<"U+2198">>, <<"U+2193">>, <<"U+2199">> >>,
    bar     |-> << <<"[", " ", " ", " ", " ", "]">>,
                   <<"[", "=", " ", " ", " ", "]">>,
                   <<"[", "=", "=", " ", " ", "]">>,
                   <<"[", "=", "=", "=", " ", "]">>,
                   <<"[", "=", "=", "=", "=", "]">>,
                   <<"[", " ", "=", "=", "=", "]">>,
                   <<"[", " ", " ", "=", "=", "]">>,
                   <<"[", " ", " ", " ", "=", "]">> >> ]

StyleNames == DOMAIN SPINNER_STYLES

\* Style arguments that are not keys of the table.
UnknownStyles == {"", "Braille", "spin"}

\* The constructor argument of an indicator built as a plain Spinner.
NoStyle == "<Spinner>"

StyleArgs == StyleNames \cup UnknownStyles \cup {NoStyle}

StylesGet_WrongDefault(style) ==
  IF style \in DOMAIN SPINNER_STYLES THEN SPINNER_STYLES[style]
  ELSE SPINNER_STYLES["classic"]

\* SPINNER_STYLES.get(style, SPINNER_STYLES['braille'])
StylesGet(style) ==
  IF style \in DOMAIN SPINNER_STYLES THEN SPINNER_STYLES[style]
  ELSE SPINNER_STYLES["braille"]

\* The frame sequence after construction: Spinner(message) keeps line 32,
\* StyledSpinner(message, style) overwrites it at line 94.
ConstructCycle(style) ==
  IF style = NoStyle THEN DefaultCycle ELSE StylesGet(style)

(* ----------------------------- rendering ------------------------------- *)

StatusLine_NoDots(msg) == msg \o <<NL>>

\* print(f"{self.message}...")
StatusLine(msg) == msg \o Dots \o <<NL>>

\* f'\r{self.spinner_cycle[i % len(self.spinner_cycle)]} {self.message}...'
FrameLine(cycle, i, msg) ==
  <<CR>> \o cycle[(i % Len(cycle)) + 1] \o <<SP>> \o msg \o Dots

NextIndex_Skip(i) == i + 2

\* i += 1
NextIndex(i) == i + 1

\* The padding of the clearing write, line 68.
ClearPad == 10

ClearLine_Short(msg) == <<CR>> \o Spaces(Len(msg) + 4) \o <<CR>>

\* '\r' + ' ' * (len(self.message) + 10) + '\r'
ClearLine(msg) == <<CR>> \o Spaces(Len(msg) + ClearPad) \o <<CR>>

(* ------------------------------- state --------------------------------- *)

VARIABLES
  style,          \* the constructor's style argument (NoStyle: plain Spinner)
  spinner_cycle,  \* self.spinner_cycle
  message,        \* self.message
  styles,         \* the module's dict SPINNER_STYLES as it is now
  is_tty,         \* self.is_tty
  maxcalls,       \* the calls this run is bounded to
  maxframes,      \* the frames per thread this run is bounded to
  isatty,         \* what sys.stdout.isatty() answers now
  fcall,          \* the last call of a helper function: arguments and result
  stop_running,   \* self.stop_running (threading.Event): TRUE when set
  spin_thread,    \* self.spin_thread: None or a thread
  threads,        \* the Thread objects created by start()
  stdout,         \* sys.stdout: the number of writes and the last one
  stream_ok,      \* FALSE once writes to sys.stdout raise
  flows,          \* the foreground flows that call start() and stop()
  cpc,            \* where each foreground flow is
  op,             \* the call each flow is in, or made last
  ret,            \* how each flow's last call ended
  entry,          \* history: the indicator as each flow's call found it
  calls,          \* calls issued so far
  quiet           \* history: a stop() has returned and no start() was called since

vars == <<style, spinner_cycle, message, styles, is_tty, maxcalls, maxframes, isatty, fcall, stop_running,
          spin_thread, threads, stdout, stream_ok, flows, cpc, op, ret, entry,
          calls, quiet>>

\* What construction fixes, and the bound of the run.
config == <<style, spinner_cycle, message, styles, is_tty, maxcalls, maxframes>>

None == 0

AllFlows == {1, 2}

ThreadIds == DOMAIN threads

\* A Thread object: pc, the loop variable i and the daemon flag; and as
\* history k, the frames written, wrote, the last of them, exc, whether an
\* exception ended it, first, what its first test of the signal found, and
\* kset, the value of k when the signal was set while it ran (-1: it was not).
NoThread ==
  [pc |-> "none", i |-> 0, daemon |-> FALSE, k |-> 0, wrote |-> <<>>, exc |-> FALSE,
   first |-> "none", kset |-> -1]

NoWrite == [kind |-> "none", by |-> None, text |-> <<>>]

NoCall == [fn |-> "none", args |-> <<>>, result |-> <<>>]

\* The stream after one more write: kind is "frame", "line" or "clear",
\* by is the writing thread (None: a foreground flow).
Write(out, kind, by, text) ==
  [n |-> out.n + 1, last |-> [kind |-> kind, by |-> by, text |-> text]]

\* A thread that was started and has not finished.
Alive(t) == threads[t].pc \in {"check", "write", "sleep"}

\* The Thread objects the next start() can take: one never used, else one
\* whose thread has finished.
FreeSlots ==
  IF \E t \in ThreadIds : threads[t].pc = "none"
    THEN {t \in ThreadIds : threads[t].pc = "none"}
    ELSE {t \in ThreadIds : threads[t].pc = "done"}

NewThread == CHOOSE t \in FreeSlots : \A u \in FreeSlots : t <= u

Snapshot ==
  [running |-> \E t \in ThreadIds : Alive(t),
   n |-> stdout.n, stop_running |-> stop_running, spin_thread |-> spin_thread,
   units |-> {t \in ThreadIds : Alive(t)}]

(* -------------------------------- Init --------------------------------- *)

\* The indicator after construction, in a run of the flows fl bounded to
\* nthreads threads at a time, ncalls calls and nframes frames per thread.
InitWith(fl, nthreads, ncalls, nframes) ==
  /\ style \in StyleArgs
  /\ styles = SPINNER_STYLES
  /\ spinner_cycle = ConstructCycle(style)
  /\ message \in Labels
  /\ isatty \in BOOLEAN
  /\ is_tty = isatty
  /\ fcall = NoCall
  /\ maxcalls = ncalls
  /\ maxframes = nframes
  /\ stop_running = FALSE
  /\ spin_thread = None
  /\ threads = [t \in 1..nthreads |-> NoThread]
  /\ stdout = [n |-> 0, last |-> NoWrite]
  /\ stream_ok = TRUE
  /\ flows = fl
  /\ cpc = [f \in AllFlows |-> "idle"]
  /\ op = [f \in AllFlows |-> "none"]
  /\ ret = [f \in AllFlows |-> "none"]
  /\ entry = [f \in AllFlows |-> Snapshot]
  /\ calls = 0
  /\ quiet = FALSE

Init == InitWith({1}, MaxThreads, MaxCalls, MaxFrames)

\* Every style and message, one start()/stop() pair.
InitStyles == InitWith({1}, PairThreads, PairCalls, MaxFrames)

\* A plain Spinner("a").
InitPlain(fl, nthreads, ncalls, nframes) ==
  /\ InitWith(fl, nthreads, ncalls, nframes)
  /\ style = NoStyle
  /\ message = <<"a">>

(* ------------------------------ start() -------------------------------- *)

StoredMode_Reprobe == isatty

\* The display mode start() and stop() branch on: self.is_tty
StoredMode == is_tty

\* Lines 39-41: the call and the test of self.is_tty.
CallStart(f) ==
  /\ cpc[f] = "idle"
  /\ calls < maxcalls
  /\ StoredMode => FreeSlots # {}
  /\ calls' = calls + 1
  /\ op' = [op EXCEPT ![f] = "start"]
  /\ ret' = [ret EXCEPT ![f] = "none"]
  /\ entry' = [entry EXCEPT ![f] = Snapshot]
  /\ quiet' = FALSE
  /\ cpc' = [cpc EXCEPT ![f] = IF StoredMode THEN "L46" ELSE "L43"]
  /\ UNCHANGED <<config, isatty, fcall, stop_running, spin_thread, threads, stdout, stream_ok, flows>>

\* Lines 43-44: print the message once and return.
StartPrint(f) ==
  /\ cpc[f] = "L43"
  /\ IF stream_ok
       THEN /\ stdout' = Write(stdout, "line", None, StatusLine(message))
            /\ ret' = [ret EXCEPT ![f] = "ok"]
       ELSE /\ stdout' = stdout
            /\ ret' = [ret EXCEPT ![f] = "raised"]
  /\ cpc' = [cpc EXCEPT ![f] = "ret"]
  /\ UNCHANGED <<config, isatty, fcall, stop_running, spin_thread, threads, stream_ok, flows,
                 op, entry, calls, quiet>>

DaemonFlag_Off == FALSE

\* Line 48: self.spin_thread.daemon = True
DaemonFlag == TRUE

\* Line 46 left out: the signal keeps its value.
StartClearEvent_NoClear(f) ==
  /\ cpc[f] = "L46"
  /\ cpc' = [cpc EXCEPT ![f] = "L47"]
  /\ UNCHANGED <<config, isatty, fcall, stop_running, spin_thread, threads, stdout,
                 stream_ok, flows, op, ret, entry, calls, quiet>>

\* Line 46: self.stop_running.clear()
StartClearEvent(f) ==
  /\ cpc[f] = "L46"
  /\ stop_running' = FALSE
  /\ cpc' = [cpc EXCEPT ![f] = "L47"]
  /\ UNCHANGED <<config, isatty, fcall, spin_thread, threads, stdout, stream_ok, flows,
                 op, ret, entry, calls, quiet>>

\* Lines 47-48: a new Thread object, made a daemon, stored in self.spin_thread.
StartCreate(f) ==
  /\ cpc[f] = "L47"
  /\ FreeSlots # {}
  /\ LET t == NewThread IN
       /\ threads' = [threads EXCEPT ![t] = [NoThread EXCEPT !.pc = "created", !.daemon = DaemonFlag]]
       /\ spin_thread' = t
  /\ cpc' = [cpc EXCEPT ![f] = "L49"]
  /\ UNCHANGED <<config, isatty, fcall, stop_running, stdout, stream_ok, flows,
                 op, ret, entry, calls, quiet>>

\* Line 49: self.spin_thread.start(); a thread can be started only once.
StartLaunch(f) ==
  /\ cpc[f] = "L49"
  /\ IF threads[spin_thread].pc = "created"
       THEN /\ threads' = [threads EXCEPT ![spin_thread].pc = "check", ![spin_thread].i = 0]
            /\ ret' = [ret EXCEPT ![f] = "ok"]
       ELSE /\ threads' = threads
            /\ ret' = [ret EXCEPT ![f] = "raised"]
  /\ cpc' = [cpc EXCEPT ![f] = "ret"]
  /\ UNCHANGED <<config, isatty, fcall, stop_running, spin_thread, stdout, stream_ok, flows,
                 op, entry, calls, quiet>>

(* ------------------------------- _spin() ------------------------------- *)

\* Line 54: the test of the stop signal at the top of the loop.
\* A thread that has rendered maxframes frames goes on only once the signal
\* is set (the loop itself has no bound).
ThreadCheck(t) ==
  /\ threads[t].pc = "check"
  /\ IF stop_running
       THEN threads' = [threads EXCEPT ![t].pc = "done",
                                       ![t].first = IF @ = "none" THEN "stop" ELSE @]
       ELSE /\ threads[t].i < maxframes
            /\ threads' = [threads EXCEPT ![t].pc = "write",
                                          ![t].first = IF @ = "none" THEN "go" ELSE @]
  /\ UNCHANGED <<config, isatty, fcall, stop_running, spin_thread, stdout, stream_ok, flows,
                 cpc, op, ret, entry, calls, quiet>>

\* Lines 55-56: write and flush one frame; an exception ends the thread.
ThreadWrite(t) ==
  /\ threads[t].pc = "write"
  /\ IF stream_ok
       THEN LET line == FrameLine(spinner_cycle, threads[t].i, message) IN
            /\ stdout' = Write(stdout, "frame", t, line)
            /\ threads' = [threads EXCEPT ![t].pc = "sleep",
                                          ![t].k = @ + 1,
                                          ![t].wrote = line]
       ELSE /\ stdout' = stdout
            /\ threads' = [threads EXCEPT ![t].pc = "done", ![t].exc = TRUE]
  /\ UNCHANGED <<config, isatty, fcall, stop_running, spin_thread, stream_ok, flows,
                 cpc, op, ret, entry, calls, quiet>>

\* Lines 57-58 done by rotating the frame list in place instead:
\* self.spinner_cycle.append(self.spinner_cycle.pop(0)). The list of a
\* StyledSpinner is the table's own entry (line 94 copies nothing).
ThreadSleep_Rotate(t) ==
  /\ threads[t].pc = "sleep"
  /\ threads' = [threads EXCEPT ![t].pc = "check", ![t].i = NextIndex(@)]
  /\ spinner_cycle' = Tail(spinner_cycle) \o <<Head(spinner_cycle)>>
  /\ styles' = IF style \in DOMAIN styles
                 THEN [styles EXCEPT ![style] = Tail(@) \o <<Head(@)>>]
                 ELSE styles
  /\ UNCHANGED <<style, message, is_tty, maxcalls, maxframes, isatty, fcall,
                 stop_running, spin_thread, stdout, stream_ok, flows,
                 cpc, op, ret, entry, calls, quiet>>

\* Lines 57-58: sleep, then advance the frame index.
ThreadSleep(t) ==
  /\ threads[t].pc = "sleep"
  /\ threads' = [threads EXCEPT ![t].pc = "check", ![t].i = NextIndex(@)]
  /\ UNCHANGED <<config, isatty, fcall, stop_running, spin_thread, stdout, stream_ok, flows,
                 cpc, op, ret, entry, calls, quiet>>

(* ------------------------------- stop() -------------------------------- *)

\* Lines 60-65: the call and the tests of self.is_tty and self.spin_thread.
CallStop(f) ==
  /\ cpc[f] = "idle"
  /\ calls < maxcalls
  /\ calls' = calls + 1
  /\ op' = [op EXCEPT ![f] = "stop"]
  /\ entry' = [entry EXCEPT ![f] = Snapshot]
  /\ IF StoredMode /\ spin_thread # None
       THEN /\ cpc' = [cpc EXCEPT ![f] = "L66"]
            /\ ret' = [ret EXCEPT ![f] = "none"]
            /\ quiet' = quiet
       ELSE /\ cpc' = [cpc EXCEPT ![f] = "ret"]
            /\ ret' = [ret EXCEPT ![f] = "ok"]
            /\ quiet' = TRUE
  /\ UNCHANGED <<config, isatty, fcall, stop_running, spin_thread, threads, stdout, stream_ok, flows>>

\* Line 66 left out: the signal is not set.
StopSet_NoSignal(f) ==
  /\ cpc[f] = "L66"
  /\ cpc' = [cpc EXCEPT ![f] = "L67"]
  /\ UNCHANGED <<config, isatty, fcall, stop_running, spin_thread, threads, stdout,
                 stream_ok, flows, op, ret, entry, calls, quiet>>

\* Line 66: self.stop_running.set()
StopSet(f) ==
  /\ cpc[f] = "L66"
  /\ stop_running' = TRUE
  /\ threads' = [t \in ThreadIds |->
                   IF Alive(t) /\ ~stop_running
                     THEN [threads[t] EXCEPT !.kset = threads[t].k]
                     ELSE threads[t]]
  /\ cpc' = [cpc EXCEPT ![f] = "L67"]
  /\ UNCHANGED <<config, isatty, fcall, spin_thread, stdout, stream_ok, flows,
                 op, ret, entry, calls, quiet>>

Finished_NoWait(t) == threads[t].pc # "created"

\* What Thread.join() waits for: the thread's run has ended.
Finished(t) == threads[t].pc = "done"

\* Line 67: self.spin_thread.join() blocks until that thread has finished;
\* joining a thread that was not started raises.
StopJoin(f) ==
  /\ cpc[f] = "L67"
  /\ Finished(spin_thread) \/ threads[spin_thread].pc = "created"
  /\ IF Finished(spin_thread)
       THEN /\ cpc' = [cpc EXCEPT ![f] = "L68"]
            /\ UNCHANGED <<ret, quiet>>
       ELSE /\ cpc' = [cpc EXCEPT ![f] = "ret"]
            /\ ret' = [ret EXCEPT ![f] = "raised"]
            /\ quiet' = TRUE
  /\ UNCHANGED <<config, isatty, fcall, stop_running, spin_thread, threads, stdout, stream_ok, flows,
                 op, entry, calls>>

\* Lines 68-69: write the clearing sequence, flush and return.
StopClear(f) ==
  /\ cpc[f] = "L68"
  /\ IF stream_ok
       THEN /\ stdout' = Write(stdout, "clear", None, ClearLine(message))
            /\ ret' = [ret EXCEPT ![f] = "ok"]
       ELSE /\ stdout' = stdout
            /\ ret' = [ret EXCEPT ![f] = "raised"]
  /\ cpc' = [cpc EXCEPT ![f] = "ret"]
  /\ quiet' = TRUE
  /\ UNCHANGED <<config, isatty, fcall, stop_running, spin_thread, threads, stream_ok, flows,
                 op, entry, calls>>

\* The caller goes on after the call.
Return(f) ==
  /\ cpc[f] = "ret"
  /\ cpc' = [cpc EXCEPT ![f] = "idle"]
  /\ UNCHANGED <<config, isatty, fcall, stop_running, spin_thread, threads, stdout, stream_ok, flows,
                 op, ret, entry, calls, quiet>>

(* ---------------------------- the stream ------------------------------- *)

\* The destination of sys.stdout stops accepting writes (closed pipe).
BreakStream ==
  /\ stream_ok
  /\ stream_ok' = FALSE
  /\ UNCHANGED <<config, isatty, fcall, stop_running, spin_thread, threads, stdout, flows,
                 cpc, op, ret, entry, calls, quiet>>

\* The destination of sys.stdout becomes, or stops being, a terminal.
ToggleTty ==
  /\ isatty' = ~isatty
  /\ UNCHANGED <<config, fcall, stop_running, spin_thread, threads, stdout, stream_ok,
                 flows, cpc, op, ret, entry, calls, quiet>>

(* --------------------------- specifications ---------------------------- *)

Next ==
  \/ \E f \in flows : CallStart(f)
  \/ \E f \in flows : StartPrint(f)
  \/ \E f \in flows : StartClearEvent(f)
  \/ \E f \in flows : StartCreate(f)
  \/ \E f \in flows : StartLaunch(f)
  \/ \E f \in flows : CallStop(f)
  \/ \E f \in flows : StopSet(f)
  \/ \E f \in flows : StopJoin(f)
  \/ \E f \in flows : StopClear(f)
  \/ \E f \in flows : Return(f)
  \/ \E t \in ThreadIds : ThreadCheck(t)
  \/ \E t \in ThreadIds : ThreadWrite(t)
  \/ \E t \in ThreadIds : ThreadSleep(t)

\* One foreground flow, a stream that accepts every write.
Spec == Init /\ [][Next]_vars

\* As Spec, over every style and message with one start()/stop() pair.
SpecStyles == InitStyles /\ [][Next]_vars

\* As Spec, for a plain Spinner("a").
SpecPlain == InitPlain({1}, MaxThreads, MaxCalls, FewFrames) /\ [][Next]_vars

\* As SpecPlain, with calls enough for start(), stop(), start(), stop().
SpecRestart == InitPlain({1}, MaxThreads, RestartCalls, FewFrames) /\ [][Next]_vars

\* One step of the thread in slot t.
ThreadStep(t) ==
  /\ t \in ThreadIds
  /\ (ThreadCheck(t) \/ ThreadWrite(t) \/ ThreadSleep(t))

\* One step of a flow inside stop(), lines 66-69.
StopStep == \E f \in flows : StopSet(f) \/ StopJoin(f) \/ StopClear(f)

\* Fair scheduling: a thread that can take a step takes it, and the flow
\* that is inside stop() goes on running.
Fairness ==
  /\ \A t \in 1..MaxThreads : WF_vars(ThreadStep(t))
  /\ WF_vars(StopStep)

SpecLive ==
  /\ InitPlain({1}, MaxThreads, MaxCalls, LiveFrames)
  /\ [][Next]_vars
  /\ Fairness

NextFail == Next \/ BreakStream

\* One foreground flow, a stream that may stop accepting writes.
SpecFail == Init /\ [][NextFail]_vars

(* ------------------------- helper functions ---------------------------- *)

\* Longest secret value, and most characters asked to stay visible.
MaxSecretLen == 3

MaxVisible == 4

\* Longest API key.
MaxKeyLen == 12

\* Longest list of variable names.
MaxListLen == 2

SecretChars == {"s", "k"}

Strings(chars, n) == UNION {[1..m -> chars] : m \in 0..n}

\* An optional value is None() or Some(x).
Unset == <<>>

Some(x) == <<x>>

\* '*' * n
Stars(n) == [j \in 1..n |-> "*"]

\* s[start:] of Python: a negative start counts from the end, and both are
\* clipped to the string.
PySliceFrom(s, start) ==
  LET a == IF start < 0 THEN start + Len(s) ELSE start
      b == IF a < 0 THEN 0 ELSE IF a > Len(s) THEN Len(s) ELSE a
  IN SubSeq(s, b + 1, Len(s))

\* s[:stop] of Python, for stop >= 0
PySliceTo(s, stop) == SubSeq(s, 1, IF stop > Len(s) THEN Len(s) ELSE stop)

\* env_utils.mask_secret
mask_secret(value, visible_chars) ==
  IF Len(value) <= visible_chars
    THEN Stars(Len(value))
    ELSE Stars(Len(value) - visible_chars) \o PySliceFrom(value, 0 - visible_chars)

NotSet == <<"(", "n", "o", "t", " ", "s", "e", "t", ")">>

mask_key_ShortThreshold(key) ==
  IF key = Unset \/ key[1] = <<>> THEN NotSet
  ELSE IF Len(key[1]) < 11 THEN Stars(Len(key[1]))
  ELSE PySliceTo(key[1], 7) \o Stars(Len(key[1]) - 11) \o PySliceFrom(key[1], 0 - 4)

\* stripe validate_connection.mask_key; key is None or a string
mask_key(key) ==
  IF key = Unset \/ key[1] = <<>> THEN NotSet
  ELSE IF Len(key[1]) < 12 THEN Stars(Len(key[1]))
  ELSE PySliceTo(key[1], 7) \o Stars(Len(key[1]) - 11) \o PySliceFrom(key[1], 0 - 4)

\* Names of environment variables, and the values they may be set to.
EnvNames == {"A", "B", "C"}

EnvValues == {"", "v"}

Environments == [EnvNames -> {Unset} \cup {Some(v) : v \in EnvValues}]

\* result[name] = value
DictSet(d, name, value) ==
  [x \in DOMAIN d \cup {name} |-> IF x = name THEN value ELSE d[x]]

IsMissing_Falsy(value) == value = Unset \/ value = Some("")

\* value is None
IsMissing(value) == value = Unset

\* The loop over required, lines 143-148: result and missing after it.
RECURSIVE ScanRequired(_, _, _, _)
ScanRequired(required, env, result, missing) ==
  IF required = <<>> THEN [result |-> result, missing |-> missing]
  ELSE LET name == Head(required)
           value == env[name]
       IN IF IsMissing(value)
            THEN ScanRequired(Tail(required), env, result, Append(missing, name))
            ELSE ScanRequired(Tail(required), env, DictSet(result, name, value[1]), missing)

\* The loop over optional, lines 157-159: os.getenv(name, '')
RECURSIVE ScanOptional(_, _, _)
ScanOptional(optional, env, result) ==
  IF optional = <<>> THEN result
  ELSE LET name == Head(optional)
           value == IF env[name] = Unset THEN "" ELSE env[name][1]
       IN ScanOptional(Tail(optional), env, DictSet(result, name, value))

\* env_utils.check_env_vars; optional is None or a list. The outcome is
\* sys.exit(1) after the names in missing were printed, or the dict returned.
check_env_vars(required, optional, env) ==
  LET scan == ScanRequired(required, env, <<>>, <<>>) IN
  IF scan.missing # <<>>
    THEN [kind |-> "exit", status |-> 1, missing |-> scan.missing]
    ELSE [kind |-> "return",
          value |-> IF optional # Unset /\ optional[1] # <<>>
                      THEN ScanOptional(optional[1], env, scan.result)
                      ELSE scan.result]

spinner == <<config, isatty, stop_running, spin_thread, threads, stdout, stream_ok,
             flows, cpc, op, ret, entry, calls, quiet>>

CallMaskSecret ==
  /\ fcall = NoCall
  /\ \E value \in Strings(SecretChars, MaxSecretLen), visible_chars \in 0..MaxVisible :
    /\ fcall' = [fn |-> "mask_secret", args |-> <<value, visible_chars>>,
                 result |-> mask_secret(value, visible_chars)]
    /\ UNCHANGED spinner

CallMaskKey ==
  /\ fcall = NoCall
  /\ \E key \in {Unset} \cup {Some(k) : k \in Strings(SecretChars, MaxKeyLen)} :
    /\ fcall' = [fn |-> "mask_key", args |-> <<key>>, result |-> mask_key(key)]
    /\ UNCHANGED spinner

CallCheckEnvVars ==
  /\ fcall = NoCall
  /\ \E required \in Strings(EnvNames, MaxListLen),
     optional \in {Unset} \cup {Some(l) : l \in Strings(EnvNames, MaxListLen)},
     env \in Environments :
    /\ fcall' = [fn |-> "check_env_vars", args |-> <<required, optional, env>>,
                 result |-> check_env_vars(required, optional, env)]
    /\ UNCHANGED spinner

NextUtil == CallMaskSecret \/ CallMaskKey \/ CallCheckEnvVars

InitUtil ==
  /\ InitPlain({1}, PairThreads, PairCalls, FewFrames)
  /\ ~isatty

\* One call of a helper function, with any arguments.
SpecUtil == InitUtil /\ [][NextUtil]_vars

(* --------------------------- process exit ------------------------------ *)

\* The foreground path of the program ends (the main thread returns).
MainFinish(f) ==
  /\ cpc[f] = "idle"
  /\ cpc' = [cpc EXCEPT ![f] = "finished"]
  /\ UNCHANGED <<config, isatty, fcall, stop_running, spin_thread, threads, stdout,
                 stream_ok, flows, op, ret, entry, calls, quiet>>

\* Interpreter shutdown: it waits for every thread that is not a daemon,
\* then the process exits and its daemon threads end with it.
CanExit == \A t \in ThreadIds : Alive(t) => threads[t].daemon

ProcessExit ==
  /\ \A f \in flows : cpc[f] = "finished"
  /\ CanExit
  /\ cpc' = [f \in AllFlows |-> IF f \in flows THEN "exited" ELSE cpc[f]]
  /\ threads' = [t \in ThreadIds |->
                   IF Alive(t) THEN [threads[t] EXCEPT !.pc = "killed"] ELSE threads[t]]
  /\ UNCHANGED <<config, isatty, fcall, stop_running, spin_thread, stdout, stream_ok,
                 flows, op, ret, entry, calls, quiet>>

NextExit == Next \/ (\E f \in flows : MainFinish(f)) \/ ProcessExit

\* A plain Spinner("a") in a program whose foreground path ends at any moment
\* between calls.
SpecExit == InitPlain({1}, PairThreads, PairCalls, FewFrames) /\ [][NextExit]_vars

NextTty == Next \/ ToggleTty

\* A plain Spinner("a") whose stream changes interactivity at any moment.
SpecTty == InitPlain({1}, PairThreads, PairCalls, FewFrames) /\ [][NextTty]_vars

(* ------------------------- two foreground flows ------------------------ *)

\* The steps inside start() and stop(), and those of the threads.
Steps ==
  \/ \E f \in flows : StartPrint(f)
  \/ \E f \in flows : StartClearEvent(f)
  \/ \E f \in flows : StartCreate(f)
  \/ \E f \in flows : StartLaunch(f)
  \/ \E f \in flows : StopSet(f)
  \/ \E f \in flows : StopJoin(f)
  \/ \E f \in flows : StopClear(f)
  \/ \E f \in flows : Return(f)
  \/ \E t \in ThreadIds : ThreadCheck(t)
  \/ \E t \in ThreadIds : ThreadWrite(t)
  \/ \E t \in ThreadIds : ThreadSleep(t)

\* Flow 1 calls start() once.
ConcStart == op[1] = "none" /\ CallStart(1)

\* Flow 2 calls stop() once, at any moment of flow 1's start().
ConcStop == op[2] = "none" /\ CallStop(2)

\* Both calls have returned: flow 2 calls stop() once more.
FurtherStop ==
  /\ op[1] = "start" /\ cpc[1] \in {"ret", "idle"}
  /\ op[2] = "stop" /\ cpc[2] = "idle"
  /\ calls = 2
  /\ CallStop(2)

NextConc == ConcStart \/ ConcStop \/ FurtherStop \/ Steps

\* A plain Spinner("a"): one start() and one stop() from two flows, then a
\* further stop().
SpecConc == InitPlain({1, 2}, MaxThreads, MaxCalls, FewFrames) /\ [][NextConc]_vars

(* ------------------------------ properties ----------------------------- *)

UnitsAlive == {t \in ThreadIds : Alive(t)}

Launched == {t \in ThreadIds : threads[t].pc \notin {"none", "created"}}

Returned(f, o) == cpc[f] = "ret" /\ op[f] = o

\* C1: on a terminal, at most one background unit of the indicator is alive
\* at any time, whatever start() and stop() calls were made.
C1_AtMostOneUnitAlive == is_tty => Cardinality(UnitsAlive) <= 1

\* C2: once a stop() has returned, the stream receives no write until
\* start() is called again.
C2_NoWriteAfterStop == [][(quiet /\ quiet') => stdout' = stdout]_vars

\* C3: when a stop() called on a running indicator returns, every background
\* unit the indicator has launched has terminated.
C3_AllUnitsDoneAtStopReturn ==
  \A f \in flows :
    (Returned(f, "stop") /\ entry[f].running) =>
      \A t \in Launched : threads[t].pc = "done"

\* C4: a stop() called while no background unit is running returns without
\* an error, having written nothing and changed nothing of the indicator.
C4_StopWhenNotRunningIsNoOp ==
  \A f \in flows :
    (Returned(f, "stop") /\ ~entry[f].running) =>
      /\ ret[f] = "ok"
      /\ stdout.n = entry[f].n
      /\ stop_running = entry[f].stop_running
      /\ spin_thread = entry[f].spin_thread

\* C5: off a terminal, start() writes exactly one line, the message followed
\* by "..." and a newline, no thread is ever created, and stop() writes
\* nothing and changes nothing.
C5_NonInteractive ==
  ~is_tty =>
    /\ \A t \in ThreadIds : threads[t] = NoThread
    /\ spin_thread = None /\ stop_running = FALSE
    /\ \A f \in flows :
         /\ Returned(f, "start") =>
              /\ stdout.n = entry[f].n + 1
              /\ stdout.last.kind = "line"
              /\ stdout.last.text = message \o <<".", ".", ".", "\n">>
         /\ Returned(f, "stop") => stdout.n = entry[f].n

C5_Witness ==
  /\ ~is_tty /\ message # <<>>
  /\ Returned(1, "stop") /\ stdout.n = 1 /\ stdout.last.kind = "line"

\* C6: stop() writes the clearing sequence only when no background unit of
\* the indicator is alive, and a foreground flow never writes while one is.
C6_ClearOnlyWhenNoUnitAlive ==
  \A f \in flows : cpc[f] \in {"L43", "L68"} => UnitsAlive = {}

\* C7: the k-th write of a background unit is "\r", frame k mod len(cycle),
\* a space, the message and "..."; the index starts at 0 and grows by one per
\* write, so with four frames the fifth write repeats the first.
C7_FrameCycling ==
  \A t \in ThreadIds :
    LET th == threads[t]
        n == Len(spinner_cycle)
        Line(j) == <<"\r">> \o spinner_cycle[j] \o <<" ">> \o message \o <<".", ".", ".">>
    IN /\ th.pc \in {"check", "write", "done"} => th.i = th.k
       /\ th.pc = "sleep" => th.i = th.k - 1
       /\ th.k > 0 => th.wrote = Line(((th.k - 1) % n) + 1)
       /\ (n = 4 /\ th.k = 5) => th.wrote = Line(1)

C7_Witness ==
  \E t \in ThreadIds :
    /\ Len(spinner_cycle) = 4 /\ threads[t].k = 5 /\ message # <<>>
    /\ stdout.last.kind = "frame" /\ stdout.last.text = threads[t].wrote

\* C8: a style name of the table selects that entry as the frame sequence,
\* any other name selects the braille entry, and the sequence is never empty.
C8_StyleSelection ==
  (style # NoStyle) =>
    /\ style \in {"braille", "classic", "dots", "arrows", "bar"} =>
         spinner_cycle = SPINNER_STYLES[style]
    /\ style \notin {"braille", "classic", "dots", "arrows", "bar"} =>
         spinner_cycle = SPINNER_STYLES.braille
    /\ Len(spinner_cycle) >= 1

C8_Witness ==
  /\ style \in UnknownStyles
  /\ \E t \in ThreadIds : threads[t].k > 0 /\ threads[t].wrote[2] = "U+280B"

\* C9: the spaces stop() writes to clear the line are at least as many as
\* the characters of any frame line a background unit has rendered.
C9_ClearCoversFrame ==
  LET NumSpaces(text) == Cardinality({j \in 1..Len(text) : text[j] = " "})
      FrameChars(th) == Len(th.wrote) - 1
  IN \A t \in ThreadIds :
       threads[t].k > 0 =>
         /\ Len(message) + 10 >= FrameChars(threads[t])
         /\ FrameChars(threads[t]) =
              Len(spinner_cycle[1]) + 1 + Len(message) + 3
         /\ stdout.last.kind = "clear" =>
              /\ NumSpaces(stdout.last.text) = Len(message) + 10
              /\ NumSpaces(stdout.last.text) >= FrameChars(threads[t])

C9_Witness ==
  /\ style = "bar" /\ stdout.last.kind = "clear"
  /\ \E t \in ThreadIds :
       threads[t].k > 0 /\ Len(threads[t].wrote) - 1 = Len(message) + 10

\* C10: a failing write or flush ends the background unit's loop, and no
\* call to start() or stop() raises because of it.
C10_OutputFailureAbsorbed ==
  /\ \A t \in ThreadIds : threads[t].exc => threads[t].pc = "done"
  /\ \A f \in flows : ret[f] # "raised"

\* C11: when start() and stop() are issued concurrently from two flows on a
\* terminal, both return without an error, and once a further stop() has
\* returned no background unit is alive.
C11_ConcurrentStopSafe ==
  /\ \A f \in flows : ret[f] # "raised"
  /\ (calls = 3 /\ Returned(2, "stop")) => UnitsAlive = {}

\* C12: the display mode is the one stored at construction: whatever the
\* stream answers later, frames are rendered only in the stored interactive
\* mode, start() launches a thread exactly then and prints the line otherwise,
\* and stop() cleans up exactly then.
C12_ModeResolvedOnce ==
  /\ \A t \in ThreadIds : threads[t].pc # "none" => is_tty
  /\ \A f \in flows :
       /\ (Returned(f, "start") /\ ret[f] = "ok") =>
            IF is_tty
              THEN /\ spin_thread # None
                   /\ threads[spin_thread].pc \in {"check", "write", "sleep", "done"}
                   /\ stdout.last.kind # "line"
              ELSE /\ spin_thread = None
                   /\ stdout.last.kind = "line"
                   /\ stdout.n = entry[f].n + 1
       /\ Returned(f, "stop") =>
            IF is_tty /\ entry[f].spin_thread # None
              THEN stop_running /\ stdout.n > entry[f].n
              ELSE stdout.n = entry[f].n

C12_Witness ==
  /\ is_tty /\ ~isatty
  /\ Returned(1, "stop") /\ stdout.last.kind = "clear"
  /\ \E t \in ThreadIds : threads[t].k > 0 /\ threads[t].pc = "done"

\* C13: the background unit is a daemon: once the foreground path has
\* finished, no running background unit keeps the process from exiting, also
\* when stop() was never called.
C13_DaemonNeverBlocksExit ==
  /\ \A t \in ThreadIds : Alive(t) => threads[t].daemon
  /\ (\A f \in flows : cpc[f] = "finished") => CanExit

C13_Witness ==
  /\ cpc[1] = "exited" /\ op[1] = "start" /\ calls = 1
  /\ \E t \in ThreadIds : threads[t].pc = "killed" /\ threads[t].k > 0

\* C14: when stop() writes the clearing sequence, the thread it has joined
\* has written at least one frame, with the message in it, if its first test
\* of the stop signal came before the signal was set.
C14_FrameBeforeClear ==
  \A f \in flows :
    (cpc[f] = "L68" \/ (Returned(f, "stop") /\ stdout.n > entry[f].n)) =>
      (threads[spin_thread].first = "go" =>
         /\ threads[spin_thread].k >= 1
         /\ \E j \in 1..Len(threads[spin_thread].wrote) :
              SubSeq(threads[spin_thread].wrote, j, j + Len(message) - 1) = message)

C14_Witness ==
  /\ Returned(1, "stop") /\ stdout.last.kind = "clear" /\ calls = 2
  /\ threads[spin_thread].first = "go" /\ threads[spin_thread].k = 1

\* C15: mask_secret(value, visible_chars) has the length of value, shows at
\* most the last visible_chars characters of value and '*' everywhere else,
\* and shows nothing when len(value) <= visible_chars; for every
\* visible_chars >= 0.
C15_MaskSecret ==
  fcall.fn = "mask_secret" =>
    LET value == fcall.args[1]
        visible == fcall.args[2]
        r == fcall.result
    IN /\ Len(r) = Len(value)
       /\ \A j \in 1..Len(r) :
            IF Len(value) > visible /\ j > Len(value) - visible
              THEN r[j] = value[j]
              ELSE r[j] = "*"

\* C16: check_env_vars exits with status 1, returning nothing, when a
\* required name is unset; otherwise it returns a dict with every required
\* name and its value and every optional name and its value, '' when unset.
C16_CheckEnvVars ==
  fcall.fn = "check_env_vars" =>
    LET required == fcall.args[1]
        optional == IF fcall.args[2] = <<>> THEN <<>> ELSE fcall.args[2][1]
        env == fcall.args[3]
        r == fcall.result
        Names(l) == {l[j] : j \in 1..Len(l)}
    IN IF \E n \in Names(required) : env[n] = <<>>
         THEN r.kind = "exit" /\ r.status = 1 /\ "value" \notin DOMAIN r
         ELSE /\ r.kind = "return"
              /\ DOMAIN r.value = Names(required) \cup Names(optional)
              /\ \A n \in Names(required) : <<r.value[n]>> = env[n]
              /\ \A n \in Names(optional) :
                   r.value[n] = IF env[n] = <<>> THEN "" ELSE env[n][1]

C16_Witness ==
  /\ fcall.fn = "check_env_vars" /\ fcall.result.kind = "return"
  /\ fcall.args[1] = <<"A", "B">> /\ fcall.args[2] = <<(<<"B", "C">>)>>
  /\ fcall.args[3]["A"] = <<"">> /\ fcall.args[3]["C"] = <<>>
  /\ fcall.result.value["A"] = "" /\ fcall.result.value["C"] = ""

\* C20: for a non-empty key, mask_key has the length of the key and at least
\* one '*' in it: every position when len(key) < 12, otherwise every position
\* but the first 7 and the last 4; for an empty or missing key it is
\* "(not set)".
C20_MaskKey ==
  fcall.fn = "mask_key" =>
    LET key == fcall.args[1]
        r == fcall.result
    IN IF key = <<>> \/ key[1] = <<>>
         THEN r = <<"(", "n", "o", "t", " ", "s", "e", "t", ")">>
         ELSE LET k == key[1] IN
              /\ Len(r) = Len(k)
              /\ \E j \in 1..Len(r) : r[j] = "*"
              /\ Len(k) < 12 => \A j \in 1..Len(r) : r[j] = "*"
              /\ Len(k) >= 12 =>
                   \A j \in 1..Len(r) :
                     r[j] = IF j <= 7 \/ j > Len(k) - 4 THEN k[j] ELSE "*"

C20_Witness ==
  /\ fcall.fn = "mask_key" /\ fcall.args[1] # <<>>
  /\ Len(fcall.args[1][1]) = 12
  /\ Cardinality({j \in 1..12 : fcall.result[j] = "*"}) = 1

\* C17: from the moment the stop signal is set, a background unit writes at
\* most one further frame (and then leaves its loop at the next test).
C17_AtMostOneWriteAfterSet ==
  \A t \in ThreadIds :
    threads[t].kset >= 0 => threads[t].k - threads[t].kset <= 1

\* C18: under fair scheduling, a stop() that found a thread to stop (it is
\* at lines 66-68) eventually returns, whatever calls came before it.
C18_StopTerminates ==
  \A f \in AllFlows :
    (op[f] = "stop" /\ cpc[f] \in {"L66", "L67", "L68"}) ~> Returned(f, "stop")

C18_Witness ==
  /\ Returned(1, "stop") /\ calls = MaxCalls /\ ret[1] = "ok"
  /\ entry[1].units = {entry[1].spin_thread}
  /\ threads[spin_thread].pc = "done" /\ threads[spin_thread].k >= 1
  /\ stdout.last.kind = "clear"

\* C19: on a terminal, a start() that finds an earlier thread finished and
\* none alive clears the stop signal and leaves exactly one thread alive,
\* whose frame index began at 0; a stop() that finds exactly the current
\* thread alive ends it and writes the clearing sequence last, in the first
\* run and in a later one alike.
C19_Restart ==
  \A f \in flows :
    /\ (/\ Returned(f, "start") /\ is_tty
        /\ entry[f].spin_thread # None /\ entry[f].units = {}) =>
         LET th == threads[spin_thread] IN
         /\ ret[f] = "ok"
         /\ stop_running = FALSE
         /\ UnitsAlive = {spin_thread}
         /\ th.kset = -1
         /\ th.i = IF th.pc = "sleep" THEN th.k - 1 ELSE th.k
         /\ th.k > 0 => th.wrote = FrameLine(spinner_cycle, th.k - 1, message)
         /\ stdout.n = entry[f].n + th.k
    /\ (/\ Returned(f, "stop") /\ is_tty
        /\ entry[f].spin_thread # None /\ entry[f].units = {entry[f].spin_thread}) =>
         /\ ret[f] = "ok"
         /\ spin_thread = entry[f].spin_thread
         /\ threads[spin_thread].pc = "done"
         /\ UnitsAlive = {}
         /\ stdout.last.kind = "clear"
         /\ stdout.last.text = ClearLine(message)

\* The second run has been started (the first thread is finished, the
\* signal was set when start() was called) and then stopped.
C19_Witness ==
  /\ Returned(1, "stop") /\ is_tty /\ calls = 4
  /\ threads[1].pc = "done" /\ threads[1].k >= 1
  /\ spin_thread = 2 /\ entry[1].units = {2}
  /\ threads[2].pc = "done" /\ threads[2].k >= 1
  /\ stdout.last.kind = "clear"

\* C21: no step of construction's aftermath, start(), stop() or the loop
\* changes the message, the indicator's frame sequence or the style table:
\* they keep the values construction gave them.
C21_FrameUnchanged ==
  [][/\ message' = message
     /\ spinner_cycle' = spinner_cycle
     /\ styles' = styles]_vars

\* A styled indicator with a message has been started, has rendered two
\* frames and has been stopped; sequence and table are as constructed.
C21_Witness ==
  /\ style = "classic" /\ message # <<>> /\ is_tty
  /\ Returned(1, "stop") /\ calls = 2 /\ stdout.last.kind = "clear"
  /\ threads[spin_thread].pc = "done" /\ threads[spin_thread].k >= 2
  /\ spinner_cycle = ConstructCycle(style)
  /\ styles = SPINNER_STYLES

=============================================================================
